---- MODULE Spec2Model ----
(***************************************************************************)
(* Model of nagra's table metadata (src/nagra/table.py): Table             *)
(* construction and registration, Table.default_columns, the join-path     *)
(* resolver Table.join_on with its lru_cache, join emission Table.join,    *)
(* and the alias environment Env (add_ref, clone).                         *)
(*                                                                         *)
(* Representation                                                          *)
(*   - a Python dict is a sequence of [k, v] records in insertion order;   *)
(*   - a dotted name "x.y" is the sequence <<"x", "y">>;                   *)
(*   - the alias f"{name}_{n}" is the record [name |-> name, n |-> n];     *)
(*   - a one2many value "T.c" is the record [table |-> "T", col |-> "c"];  *)
(*   - a Table object is identified by the name it is registered under;    *)
(*   - an Env object is its index in envs, a dict object its index in      *)
(*     heap (two Envs hold the same dict iff they hold the same index).    *)
(***************************************************************************)
EXTENDS Integers, Sequences, FiniteSets, TLC

VARIABLES
    registry,   \* Schema: sequence of [k |-> table name, v |-> Table]
    envs,       \* Env objects: sequence of [table, refs], refs a heap index
    heap,       \* dict objects held as Env.refs: sequence of mappings
    cache,      \* lru_cache of Table.join_on, least recently used first
    gens,       \* generator objects made by Table.join
    ret         \* the last operation: its name, arguments and outcome (for
                \* add_ref also the number of prefixes it registered)

vars == <<registry, envs, heap, cache, gens, ret>>

----------------------------------------------------------------------------
(* Bounds of the model *)

MaxPathLen == 3     \* segments of a path handed to add_ref / join_on
MaxRefs == 3        \* add_ref is explored while the mappings hold fewer entries
MaxCache == 4       \* join_on / join are explored while the cache is shorter

None == "<None>"

----------------------------------------------------------------------------
(* Python dict, insertion ordered *)

DictKeys(d) == {d[i].k : i \in 1..Len(d)}

DictHas(d, k) == k \in DictKeys(d)

DictIndex(d, k) == CHOOSE i \in 1..Len(d) : d[i].k = k

\* d.get(k, default)
DictGet(d, k, default) == IF DictHas(d, k) THEN d[DictIndex(d, k)].v ELSE default

\* d[k] = v : an existing key keeps its position, a new key goes last
DictSet(d, k, v) ==
    IF DictHas(d, k)
    THEN [d EXCEPT ![DictIndex(d, k)] = [k |-> k, v |-> v]]
    ELSE Append(d, [k |-> k, v |-> v])

----------------------------------------------------------------------------
(* Column. A type string is written as the sequence of its pieces, whose    *)
(* concatenation is the string: a whitespace character, a "[", or a maximal *)
(* run of text between them that has no "[" and no whitespace at its ends   *)
(* (" int" is <<" ", "int">>, "varchar [][]" is <<"varchar", " ", "[",      *)
(* "]", "[", "]">>, "double precision" is one piece). A character a string  *)
(* of the model cannot hold is written as Python escapes it (the four       *)
(* characters \x0b, the six characters \u2003), and a backslash of the      *)
(* text itself is written twice, so that no text reads as such an escape.   *)

\* the characters str.strip() removes: those for which str.isspace() holds
Whitespace ==
    {"\t", "\n", "\\x0b", "\f", "\r", "\\x1c", "\\x1d", "\\x1e", "\\x1f", " ",
     "\\x85", "\\xa0", "\\u1680", "\\u2000", "\\u2001", "\\u2002", "\\u2003",
     "\\u2004", "\\u2005", "\\u2006", "\\u2007", "\\u2008", "\\u2009",
     "\\u200a", "\\u2028", "\\u2029", "\\u202f", "\\u205f", "\\u3000"}

\* _TYPE_ALIAS, with the uppercase variants the update adds
TYPE_ALIAS ==
    ("str" :> "str") @@ ("varchar" :> "str") @@ ("character varying" :> "str")
    @@ ("text" :> "str") @@ ("int" :> "int") @@ ("integer" :> "int")
    @@ ("bigint" :> "bigint") @@ ("float" :> "float")
    @@ ("double precision" :> "float") @@ ("numeric" :> "float")
    @@ ("timestamp" :> "timestamp")
    @@ ("timestamp without time zone" :> "timestamp")
    @@ ("timestamptz" :> "timestamptz")
    @@ ("timestamp with time zone" :> "timestamptz") @@ ("date" :> "date")
    @@ ("bool" :> "bool") @@ ("boolean" :> "bool") @@ ("uuid" :> "uuid")
    @@ ("json" :> "json") @@ ("blob" :> "blob") @@ ("bytea" :> "blob")
    @@ ("STR" :> "str") @@ ("VARCHAR" :> "str") @@ ("CHARACTER VARYING" :> "str")
    @@ ("TEXT" :> "str") @@ ("INT" :> "int") @@ ("INTEGER" :> "int")
    @@ ("BIGINT" :> "bigint") @@ ("FLOAT" :> "float")
    @@ ("DOUBLE PRECISION" :> "float") @@ ("NUMERIC" :> "float")
    @@ ("TIMESTAMP" :> "timestamp")
    @@ ("TIMESTAMP WITHOUT TIME ZONE" :> "timestamp")
    @@ ("TIMESTAMPTZ" :> "timestamptz")
    @@ ("TIMESTAMP WITH TIME ZONE" :> "timestamptz") @@ ("DATE" :> "date")
    @@ ("BOOL" :> "bool") @@ ("BOOLEAN" :> "bool") @@ ("UUID" :> "uuid")
    @@ ("JSON" :> "json") @@ ("BLOB" :> "blob") @@ ("BYTEA" :> "blob")

RECURSIVE LStrip(_)
RECURSIVE RStrip(_)

LStrip(s) == IF Len(s) > 0 /\ Head(s) \in Whitespace THEN LStrip(Tail(s)) ELSE s

RStrip(s) ==
    IF Len(s) > 0 /\ s[Len(s)] \in Whitespace
    THEN RStrip(SubSeq(s, 1, Len(s) - 1)) ELSE s

\* str.strip()
Strip(s) == RStrip(LStrip(s))

\* dtype.split("[", 1) when "[" is in dtype: the text before the first "["
\* and the text after it
SplitBracket(dtype) ==
    LET i == CHOOSE j \in 1..Len(dtype) :
                 dtype[j] = "[" /\ \A k \in 1..(j - 1) : dtype[k] # "["
    IN [dtype |-> SubSeq(dtype, 1, i - 1), dims |-> SubSeq(dtype, i + 1, Len(dtype))]

\* the text looked up in _TYPE_ALIAS: "dtype.strip()", dtype being the part
\* before the first "[" when there is one
TypeKey(dtype) ==
    IF \E j \in 1..Len(dtype) : dtype[j] = "["
    THEN Strip(SplitBracket(dtype).dtype)
    ELSE Strip(dtype)

\* the array suffix kept in Column.dims
DimsOf(dtype) ==
    IF \E j \in 1..Len(dtype) : dtype[j] = "["
    THEN <<"[">> \o Strip(SplitBracket(dtype).dims)
    ELSE <<>>

\* Column(name, dtype) raises ValueError unless the looked-up text is a key
\* of _TYPE_ALIAS
ColumnOk(dtype) ==
    LET key == TypeKey(dtype)
    IN Len(key) = 1 /\ key[1] \in DOMAIN TYPE_ALIAS

\* the type and the array suffix of Column(name, dtype), for an accepted dtype
ColumnOf(dtype) == [dtype |-> TYPE_ALIAS[TypeKey(dtype)[1]], dims |-> DimsOf(dtype)]

----------------------------------------------------------------------------
(* Schema registry (nagra.schema.Schema): name -> Table. The class is not    *)
(* among the files modelled; it is the mapping the specification describes: *)
(* get of a name that was never added fails, add registers a new name.      *)

SchemaHas(reg, name) == DictHas(reg, name)

SchemaGet(reg, name) == DictGet(reg, name, None)

SchemaAdd(reg, name, table) == DictSet(reg, name, table)

----------------------------------------------------------------------------
(* Table.__init__ *)

\* natural_key or list(columns)
NaturalKeyOf(natural_key, columns) ==
    IF Len(natural_key) > 0 THEN natural_key
    ELSE [i \in 1..Len(columns) |-> columns[i].k]

\* "id" if primary_key is None else primary_key
PrimaryKeyOf(primary_key) == IF primary_key = None THEN "id" ELSE primary_key

\* A slip in the test of the loop: any foreign key on the natural-key column
\* is rejected, whatever table it targets
MalformedFkAnyTarget(name, natural_key, foreign_keys) ==
    /\ Len(natural_key) = 1
    /\ \E i \in 1..Len(foreign_keys) : foreign_keys[i].k = natural_key[1]

\* the loop of "Detect malformed fk definitions": it raises on a foreign key
\* for which "fk != nk or fk_table != name" is false
MalformedFk(name, natural_key, foreign_keys) ==
    /\ Len(natural_key) = 1
    /\ \E i \in 1..Len(foreign_keys) :
          ~ (foreign_keys[i].k # natural_key[1] \/ foreign_keys[i].v # name)

\* The attributes Table.__init__ sets (those the resolver and the column
\* expansion read)
TableOf(args) ==
    [name |-> args.name,
     columns |-> [i \in 1..Len(args.columns) |->
                     [k |-> args.columns[i].k, v |-> ColumnOf(args.columns[i].v)]],
     natural_key |-> NaturalKeyOf(args.natural_key, args.columns),
     foreign_keys |-> args.foreign_keys,
     one2many |-> args.one2many,
     primary_key |-> PrimaryKeyOf(args.primary_key)]

\* Table(**args): the exception raised (None when none) and the registry after
NewTable(reg, args) ==
    IF \E i \in 1..Len(args.columns) : ~ ColumnOk(args.columns[i].v)
    THEN [exc |-> "ValueError", registry |-> reg]
    ELSE LET self == TableOf(args)
         IN IF MalformedFk(self.name, self.natural_key, self.foreign_keys)
            THEN [exc |-> "IncorrectTable", registry |-> reg]
            ELSE [exc |-> None, registry |-> SchemaAdd(reg, self.name, self)]

----------------------------------------------------------------------------
(* Table.default_columns *)

MaxDepth == 3       \* nested default_columns calls the model follows

\* a slip: the natural-key columns of the target are expanded as well
YieldsAsIsUnlessFk(table, column, nk_only) ==
    ~ DictHas(table.foreign_keys, column)

\* "column not in self.foreign_keys or nk_only": the column is yielded as is
YieldsAsIs(table, column, nk_only) ==
    ~ DictHas(table.foreign_keys, column) \/ nk_only

\* f"{column}.{k}" for k in ks
Dotted(column, ks) == [j \in 1..Len(ks) |-> <<column>> \o ks[j]]

RECURSIVE default_columns(_, _, _, _)
RECURSIVE default_columns_loop(_, _, _, _, _, _)

\* list(table.default_columns(nk_only)): the columns yielded, and the
\* exception that ended the generator (None when it ran to its end).
\* depth counts the nested calls; past MaxDepth the call is not followed.
default_columns(reg, table, nk_only, depth) ==
    IF depth > MaxDepth
    THEN [exc |-> "RecursionError", cols |-> <<>>]
    ELSE LET columns == IF nk_only THEN table.natural_key
                        ELSE [i \in 1..Len(table.columns) |-> table.columns[i].k]
         IN default_columns_loop(reg, table, nk_only, depth, columns, <<>>)

default_columns_loop(reg, table, nk_only, depth, columns, acc) ==
    IF Len(columns) = 0 THEN [exc |-> None, cols |-> acc]
    ELSE LET column == Head(columns)
         IN IF YieldsAsIs(table, column, nk_only)
            THEN default_columns_loop(reg, table, nk_only, depth, Tail(columns),
                                      Append(acc, <<column>>))
            ELSE LET fname == DictGet(table.foreign_keys, column, None)
                 IN IF ~ SchemaHas(reg, fname)
                    THEN [exc |-> "KeyError", cols |-> acc]
                    ELSE LET sub == default_columns(reg, SchemaGet(reg, fname),
                                                    TRUE, depth + 1)
                             acc2 == acc \o Dotted(column, sub.cols)
                         IN IF sub.exc # None
                            THEN [exc |-> sub.exc, cols |-> acc2]
                            ELSE default_columns_loop(reg, table, nk_only, depth,
                                                      Tail(columns), acc2)

\* the columns a call of default_columns iterates over
ColumnsOf(table, nk_only) ==
    IF nk_only THEN table.natural_key
    ELSE [i \in 1..Len(table.columns) |-> table.columns[i].k]

\* table.default_columns(nk_only): a generator object, of which nothing has
\* run yet. stack holds the calls in progress, the outermost first: the
\* table of each, its nk_only and the number of columns its loop has taken;
\* every call but the innermost is suspended in the "yield from" of the
\* column it took last. cols are the columns yielded so far.
NewColumnGenerator(table_name, nk_only) ==
    [stack |-> <<[table |-> table_name, nk_only |-> nk_only, pos |-> 0]>>,
     state |-> "created", cols |-> <<>>, exc |-> None]

\* f"{column}.{k}" applied by every suspended call to the column k the
\* innermost call yields
DottedThrough(reg, stack, k) ==
    [i \in 1..(Len(stack) - 1) |->
        ColumnsOf(SchemaGet(reg, stack[i].table), stack[i].nk_only)[stack[i].pos]]
    \o <<k>>

RECURSIVE default_columns_next(_, _)

\* next(g) for a generator g of default_columns: the innermost call runs up
\* to its next yield, the registry being read when a foreign-key column is
\* reached. The result is the generator after the call, the exception raised
\* (StopIteration at the end of the outermost loop) and the column yielded.
default_columns_next(reg, g) ==
    IF g.state = "done"
    THEN [gen |-> g, exc |-> "StopIteration", val |-> <<>>]
    ELSE LET n == Len(g.stack)
             top == g.stack[n]
             table == SchemaGet(reg, top.table)
             columns == ColumnsOf(table, top.nk_only)
         IN IF top.pos >= Len(columns)
            THEN IF n = 1
                 THEN [gen |-> [g EXCEPT !.state = "done", !.exc = "StopIteration"],
                       exc |-> "StopIteration", val |-> <<>>]
                 ELSE default_columns_next(reg,
                          [g EXCEPT !.state = "running",
                                    !.stack = SubSeq(g.stack, 1, n - 1)])
            ELSE LET column == columns[top.pos + 1]
                     taken == [g EXCEPT !.state = "running",
                                        !.stack[n].pos = top.pos + 1]
                 IN IF YieldsAsIs(table, column, top.nk_only)
                    THEN LET val == DottedThrough(reg, g.stack, column)
                         IN [gen |-> [taken EXCEPT !.cols = Append(g.cols, val)],
                             exc |-> None, val |-> val]
                    ELSE LET fname == DictGet(table.foreign_keys, column, None)
                         IN IF ~ SchemaHas(reg, fname)
                            THEN [gen |-> [taken EXCEPT !.state = "done",
                                                        !.exc = "KeyError"],
                                  exc |-> "KeyError", val |-> <<>>]
                            ELSE default_columns_next(reg,
                                     [taken EXCEPT !.stack = Append(taken.stack,
                                         [table |-> fname, nk_only |-> TRUE,
                                          pos |-> 0])])

----------------------------------------------------------------------------
(* functools.lru_cache around Table.join_on *)

LruMaxSize == 128   \* maxsize of a bare @lru_cache

\* a slip: the cache forgets which table the call was made on
CacheKeyNoSelf(table_name, path, env) == <<"", path, env>>

\* the key of a call: every positional argument (self, path, env)
CacheKey(table_name, path, env) == <<table_name, path, env>>

LruHas(c, key) == DictHas(c, key)

LruGet(c, key) == c[DictIndex(c, key)].v

\* a hit makes the entry the most recently used
LruTouch(c, key) ==
    LET i == DictIndex(c, key)
    IN SubSeq(c, 1, i - 1) \o SubSeq(c, i + 1, Len(c)) \o <<c[i]>>

\* a miss stores the result, dropping the least recently used entry of a
\* full cache; a key stored meanwhile (by the recursion) is left as it is
LruPut(c, key, val) ==
    IF LruHas(c, key) THEN c
    ELSE IF Len(c) >= LruMaxSize
         THEN Append(Tail(c), [k |-> key, v |-> val])
         ELSE Append(c, [k |-> key, v |-> val])

----------------------------------------------------------------------------
(* Table.join_on *)

NoRelation == [table |-> None, col |-> None]

\* "join_col = ftable.primary_key" of the one2many branch
ReverseJoinCol(self, ftable) == ftable.primary_key

\* self.foreign_keys[head]; None stands for the KeyError
ForwardTarget(self, head) == DictGet(self.foreign_keys, head, None)

\* The body for a path of one segment: (ftable, alias_col, join_col)
join_on_single(reg, self, head) ==
    LET alias == DictGet(self.one2many, head, NoRelation)
    IN IF alias # NoRelation
       THEN IF ~ SchemaHas(reg, alias.table)
            THEN [exc |-> "KeyError", val |-> None]
            ELSE LET ftable == SchemaGet(reg, alias.table)
                 IN [exc |-> None,
                     val |-> [ftable |-> ftable.name,
                              alias_col |-> alias.col,
                              join_col |-> ReverseJoinCol(self, ftable)]]
       ELSE LET fname == ForwardTarget(self, head)
            IN IF fname = None \/ ~ SchemaHas(reg, fname)
               THEN [exc |-> "KeyError", val |-> None]
               ELSE LET ftable == SchemaGet(reg, fname)
                    IN [exc |-> None,
                        val |-> [ftable |-> ftable.name,
                                 alias_col |-> ftable.primary_key,
                                 join_col |-> head]]

RECURSIVE join_on(_, _, _, _, _)

\* table.join_on(path, env) through the cache c: the cache after the call,
\* the exception raised (None when none) and the value returned
join_on(c, reg, table_name, path, env) ==
    LET key == CacheKey(table_name, path, env)
    IN IF LruHas(c, key)
       THEN [cache |-> LruTouch(c, key), exc |-> None, val |-> LruGet(c, key)]
       ELSE IF Len(path) = 0
       THEN \* path[:-1] of () is (): the call recurses on its own key
            [cache |-> c, exc |-> "RecursionError", val |-> None]
       ELSE IF Len(path) = 1
       THEN LET r == join_on_single(reg, SchemaGet(reg, table_name), path[1])
            IN IF r.exc # None
               THEN [cache |-> c, exc |-> r.exc, val |-> None]
               ELSE [cache |-> LruPut(c, key, r.val), exc |-> None, val |-> r.val]
       ELSE LET prev == join_on(c, reg, table_name,
                                SubSeq(path, 1, Len(path) - 1), env)
            IN IF prev.exc # None THEN prev
               ELSE LET last == join_on(prev.cache, reg, prev.val.ftable,
                                        <<path[Len(path)]>>, env)
                    IN IF last.exc # None THEN last
                       ELSE [cache |-> LruPut(last.cache, key, last.val),
                             exc |-> None, val |-> last.val]

\* The same resolution with no cache at all
RECURSIVE join_on_fresh(_, _, _)
join_on_fresh(reg, table_name, path) ==
    IF Len(path) = 0 THEN [exc |-> "RecursionError", val |-> None]
    ELSE IF Len(path) = 1
    THEN join_on_single(reg, SchemaGet(reg, table_name), path[1])
    ELSE LET prev == join_on_fresh(reg, table_name, SubSeq(path, 1, Len(path) - 1))
         IN IF prev.exc # None THEN prev
            ELSE join_on_fresh(reg, prev.val.ftable, <<path[Len(path)]>>)

----------------------------------------------------------------------------
(* Env *)

\* refs.get(prefix) of a missing prefix
NoneAlias == [name |-> None, n |-> -1]

\* a slip: ordinals counted from one
FormatAliasFromOne(name, n) == [name |-> name, n |-> n + 1]

\* f"{name}_{n}"
FormatAlias(name, n) == [name |-> name, n |-> n]

\* a slip: a registered prefix is not recognised
RegisteredNever(refs, prefix) == FALSE

\* "table_alias = self.refs.get(prefix)" is truthy
Registered(refs, prefix) == DictGet(refs, prefix, NoneAlias) # NoneAlias

\* a slip: ancestors are not registered first
NeedsParentNever(prefix) == FALSE

\* "len(prefix) >= 2"
NeedsParent(prefix) == Len(prefix) >= 2

RECURSIVE add_ref(_, _)

\* Env.add_ref(path) on the mapping refs: the mapping after the call, the
\* exception raised (None when none) and the value returned, where
\* [alias, col] stands for '"<alias>"."<col>"'
add_ref(refs, path) ==
    IF Len(path) < 2
    THEN \* "*head, name, tail = path" needs two values
         [refs |-> refs, exc |-> "ValueError", val |-> None]
    ELSE LET prefix == SubSeq(path, 1, Len(path) - 1)
             name == path[Len(path) - 1]
             tail == path[Len(path)]
         IN IF Registered(refs, prefix)
            THEN [refs |-> refs, exc |-> None,
                  val |-> [alias |-> DictGet(refs, prefix, NoneAlias), col |-> tail]]
            ELSE LET r1 == IF NeedsParent(prefix) THEN add_ref(refs, prefix).refs
                           ELSE refs
                     table_alias == FormatAlias(name, Len(r1))
                 IN [refs |-> DictSet(r1, prefix, table_alias), exc |-> None,
                     val |-> [alias |-> table_alias, col |-> tail]]

\* "self.refs = refs or {}" for a dict object `given` of the heap: a non-empty
\* dict is kept as it is (the same object), an empty one is replaced by a new
\* dict
RefsOrNew(heap_, given) ==
    IF Len(heap_[given]) > 0
    THEN [heap |-> heap_, refs |-> given]
    ELSE [heap |-> Append(heap_, <<>>), refs |-> Len(heap_) + 1]

\* "self.refs.copy()": a new dict object with the same entries
Copy(heap_, d) == [heap |-> Append(heap_, heap_[d]), refs |-> Len(heap_) + 1]

\* the mapping of Env e
Refs(e) == heap[envs[e].refs]

----------------------------------------------------------------------------
(* Table.join *)

\* the root table's own name as the anchor of a join (it carries no ordinal)
RootAnchor(name) == [name |-> name, n |-> -1]

\* a slip: every join is anchored on the root table
AnchorRoot(refs, self_name, prefix) == [exc |-> None, val |-> RootAnchor(self_name)]

\* "*head, tail = prefix" and "prev_table = env.refs[tuple(head)] if head
\* else self.name": an empty prefix cannot be unpacked
Anchor(refs, self_name, prefix) ==
    LET head == SubSeq(prefix, 1, Len(prefix) - 1)
    IN IF Len(prefix) = 0 THEN [exc |-> "ValueError", val |-> NoneAlias]
       ELSE IF Len(head) = 0 THEN [exc |-> None, val |-> RootAnchor(self_name)]
       ELSE IF ~ DictHas(refs, head) THEN [exc |-> "KeyError", val |-> NoneAlias]
       ELSE [exc |-> None, val |-> DictGet(refs, head, NoneAlias)]

\* what next() gives when no descriptor is yielded
NoDescriptor ==
    [ftable |-> None, alias |-> NoneAlias, prev_table |-> NoneAlias,
     alias_col |-> None, join_col |-> None]

\* table.join(env): a generator object, of which nothing has run yet. pos
\* counts the entries the items() iterator has passed, used is the size of
\* the mapping when the iterator was made (-1 before), descs are the
\* descriptors yielded so far, exc and at tell how the generator ended.
NewGenerator(table_name, env) ==
    [table |-> table_name, env |-> env, state |-> "created", pos |-> 0,
     used |-> -1, descs |-> <<>>, exc |-> None, at |-> None]

\* the generator after it ended with exception exc raised at place at
Ended(g, exc, at) == [g EXCEPT !.state = "done", !.exc = exc, !.at = at]

\* next(g) for a generator g of Table.join, refs being the mapping of its Env
\* now: the body runs up to its next yield. The iterator of items() is made
\* at the first call; it raises RuntimeError when the mapping has another
\* size than it had then. The result is the cache and the generator after
\* the call, the exception raised (StopIteration at the end of the loop),
\* where it was raised, and the descriptor yielded.
join_next(c, reg, g, refs) ==
    IF g.state = "done"
    THEN [cache |-> c, gen |-> g, exc |-> "StopIteration", at |-> None,
          val |-> NoDescriptor]
    ELSE LET used == IF g.state = "created" THEN Len(refs) ELSE g.used
             it == [g EXCEPT !.state = "running", !.used = used]
         IN IF Len(refs) # used
            THEN [cache |-> c, gen |-> Ended(it, "RuntimeError", "items"),
                  exc |-> "RuntimeError", at |-> "items", val |-> NoDescriptor]
            ELSE IF it.pos >= Len(refs)
            THEN [cache |-> c, gen |-> Ended(it, "StopIteration", None),
                  exc |-> "StopIteration", at |-> None, val |-> NoDescriptor]
            ELSE LET prefix == refs[it.pos + 1].k
                     alias == refs[it.pos + 1].v
                     prev_table == Anchor(refs, g.table, prefix)
                 IN IF prev_table.exc # None
                    THEN LET at == IF Len(prefix) = 0 THEN "unpack" ELSE "anchor"
                         IN [cache |-> c, gen |-> Ended(it, prev_table.exc, at),
                             exc |-> prev_table.exc, at |-> at,
                             val |-> NoDescriptor]
                    ELSE LET r == join_on(c, reg, g.table, prefix, g.env)
                         IN IF r.exc # None
                            THEN [cache |-> r.cache,
                                  gen |-> Ended(it, r.exc, "join_on"),
                                  exc |-> r.exc, at |-> "join_on",
                                  val |-> NoDescriptor]
                            ELSE LET desc == [ftable |-> r.val.ftable,
                                              alias |-> alias,
                                              prev_table |-> prev_table.val,
                                              alias_col |-> r.val.alias_col,
                                              join_col |-> r.val.join_col]
                                 IN [cache |-> r.cache,
                                     gen |-> [it EXCEPT !.pos = it.pos + 1,
                                                        !.descs = Append(it.descs, desc)],
                                     exc |-> None, at |-> None, val |-> desc]

RECURSIVE join_loop(_, _, _, _, _, _, _)

\* the loop of Table.join over env.refs.items() from entry i on, when nothing
\* runs between two descriptors: the cache after it, the descriptors yielded,
\* the exception that ended the generator (None when it ran to its end) and
\* where it was raised
join_loop(c, reg, self_name, env, refs, i, acc) ==
    IF i > Len(refs) THEN [cache |-> c, exc |-> None, at |-> None, descs |-> acc]
    ELSE LET prefix == refs[i].k
             alias == refs[i].v
             prev_table == Anchor(refs, self_name, prefix)
         IN IF prev_table.exc # None
            THEN [cache |-> c, exc |-> prev_table.exc,
                  at |-> IF Len(prefix) = 0 THEN "unpack" ELSE "anchor",
                  descs |-> acc]
            ELSE LET r == join_on(c, reg, self_name, prefix, env)
                 IN IF r.exc # None
                    THEN [cache |-> r.cache, exc |-> r.exc, at |-> "join_on",
                          descs |-> acc]
                    ELSE join_loop(r.cache, reg, self_name, env, refs, i + 1,
                                   Append(acc, [ftable |-> r.val.ftable,
                                                alias |-> alias,
                                                prev_table |-> prev_table.val,
                                                alias_col |-> r.val.alias_col,
                                                join_col |-> r.val.join_col]))

\* list(table.join(env))
join(c, reg, self_name, env, refs) == join_loop(c, reg, self_name, env, refs, 1, <<>>)

----------------------------------------------------------------------------
(* Inputs *)

Names == {"p", "q"}

Segs == {"a", "r"}

RECURSIVE SeqsOfLen(_, _)
SeqsOfLen(S, n) ==
    IF n = 0 THEN {<<>>}
    ELSE {Append(s, x) : s \in SeqsOfLen(S, n - 1), x \in S}

SeqsUpTo(S, lo, hi) == UNION {SeqsOfLen(S, n) : n \in lo..hi}

\* paths handed to add_ref: relation segments and the final column
FinalCols == {"c"}

\* the Env objects of one behaviour
EnvIds == {1, 2}

\* the generators of Table.join a behaviour holds
GenIds == {1}

\* the table an Env is bound to (no operation of the model reads it)
EnvRoots == {"p"}

RefPaths == {Append(p, c) : p \in SeqsUpTo(Segs, 0, MaxPathLen - 1), c \in FinalCols}

\* paths handed to join_on: relation segments only
JoinPaths == SeqsUpTo(Segs, 0, MaxPathLen - 1)

Col(name, dtype) == [k |-> name, v |-> dtype]

Fk(column, table_name) == [k |-> column, v |-> table_name]

Rel(name, table_name, column) ==
    [k |-> name, v |-> [table |-> table_name, col |-> column]]

\* "int"; " int" and "varchar [][]"; "\u2003varchar\r" and "int[]\f";
\* "number" and "[int]", which Column rejects
ColumnLists ==
    {<<Col("a", <<"int">>)>>,
     <<Col("a", <<" ", "int">>), Col("b", <<"varchar", " ", "[", "]", "[", "]">>)>>,
     <<Col("b", <<"\\u2003", "varchar", "\r">>), Col("a", <<"int", "[", "]", "\f">>)>>,
     <<Col("a", <<"number">>)>>,
     <<Col("a", <<"[", "int", "]">>)>>}

NaturalKeys == {<<>>, <<"a">>, <<"a", "b">>}

FkDicts ==
    {<<>>}
    \cup {<<Fk(c, t)>> : c \in {"a", "b"}, t \in Names}
    \cup {<<Fk("a", t), Fk("b", u)>> : t \in Names, u \in Names}

\* the constructor calls explored for the schema-building specification
TableArgs ==
    [name : Names, columns : ColumnLists, natural_key : NaturalKeys,
     foreign_keys : FkDicts, one2many : {<<>>}, primary_key : {None}]

\* the constructor calls explored where default columns are expanded: tables
\* of one or two columns, keyed by all of them or by a alone, with foreign
\* keys to themselves, to each other and to a table not registered yet
ColumnArgs ==
    [name : Names,
     columns : {<<Col("a", <<"int">>)>>, <<Col("a", <<"int">>), Col("b", <<"int">>)>>},
     natural_key : {<<>>, <<"a">>},
     foreign_keys : {<<>>, <<Fk("a", "p")>>, <<Fk("a", "q")>>,
                     <<Fk("a", "p"), Fk("b", "q")>>},
     one2many : {<<>>}, primary_key : {None}]

\* the two tables of the resolver's specification: p refers to q through the
\* foreign key a and the reverse relation r ("q.a"), q refers back to p
PArgs(pk) ==
    [name |-> "p", columns |-> <<Col("a", <<"int">>), Col("b", <<"int">>)>>,
     natural_key |-> <<>>, foreign_keys |-> <<Fk("a", "q")>>,
     one2many |-> <<Rel("r", "q", "a")>>, primary_key |-> pk]

QArgs(pk) ==
    [name |-> "q", columns |-> <<Col("a", <<"int">>)>>,
     natural_key |-> <<>>, foreign_keys |-> <<Fk("a", "p")>>,
     one2many |-> <<>>, primary_key |-> pk]

\* the registry after constructing p and then q
PQRegistry(ppk, qpk) ==
    NewTable(NewTable(<<>>, PArgs(ppk)).registry, QArgs(qpk)).registry

\* p alone (its target q is not registered), and p with q where the two
\* primary keys differ
ResolveRegistries == {NewTable(<<>>, PArgs(None)).registry, PQRegistry("pid", None)}

----------------------------------------------------------------------------
(* Actions *)

Start == [op |-> "start"]

\* Table(name, columns, ...), for a name the registry does not hold yet
TableInit(args) ==
    /\ ~ SchemaHas(registry, args.name)
    /\ LET r == NewTable(registry, args)
       IN /\ registry' = r.registry
          /\ ret' = [op |-> "Table", args |-> args, exc |-> r.exc]
    /\ UNCHANGED <<envs, heap, cache, gens>>

\* list(table.default_columns(nk_only))
DefaultColumns(t, nk_only) ==
    /\ SchemaHas(registry, t)
    /\ LET r == default_columns(registry, SchemaGet(registry, t), nk_only, 1)
       IN ret' = [op |-> "default_columns", table |-> t, nk_only |-> nk_only,
                  exc |-> r.exc, val |-> r.cols]
    /\ UNCHANGED <<registry, envs, heap, cache, gens>>

\* g = table.default_columns(nk_only): the generator is made, none of its
\* body runs
DefaultColumnsStart(t, nk_only) ==
    /\ SchemaHas(registry, t)
    /\ Len(gens) < Cardinality(GenIds)
    /\ gens' = Append(gens, NewColumnGenerator(t, nk_only))
    /\ ret' = [op |-> "columns", gen |-> Len(gens) + 1, table |-> t,
               nk_only |-> nk_only]
    /\ UNCHANGED <<registry, envs, heap, cache>>

\* next(g): one more column, or the end of the generator
DefaultColumnsNext(g) ==
    /\ g \in 1..Len(gens)
    /\ gens[g].state # "done"
    /\ LET r == default_columns_next(registry, gens[g])
       IN /\ gens' = [gens EXCEPT ![g] = r.gen]
          /\ ret' = [op |-> "next_column", gen |-> g, exc |-> r.exc,
                     val |-> r.val]
    /\ UNCHANGED <<registry, envs, heap, cache>>

\* Env(table)
EnvInit(t) ==
    /\ Len(envs) < Cardinality(EnvIds)
    /\ SchemaHas(registry, t)
    /\ heap' = Append(heap, <<>>)
    /\ envs' = Append(envs, [table |-> t, refs |-> Len(heap) + 1])
    /\ ret' = [op |-> "Env", env |-> Len(envs) + 1]
    /\ UNCHANGED <<registry, cache, gens>>

\* Env(table, src.refs)
EnvInitRefs(t, src) ==
    /\ Len(envs) < Cardinality(EnvIds)
    /\ SchemaHas(registry, t)
    /\ src \in 1..Len(envs)
    /\ LET r == RefsOrNew(heap, envs[src].refs)
       IN /\ heap' = r.heap
          /\ envs' = Append(envs, [table |-> t, refs |-> r.refs])
    /\ ret' = [op |-> "Env_refs", env |-> Len(envs) + 1, src |-> src]
    /\ UNCHANGED <<registry, cache, gens>>

\* src.clone(): Env(self.table, self.refs.copy())
Clone(src) ==
    /\ Len(envs) < Cardinality(EnvIds)
    /\ src \in 1..Len(envs)
    /\ LET cp == Copy(heap, envs[src].refs)
           r == RefsOrNew(cp.heap, cp.refs)
       IN /\ heap' = r.heap
          /\ envs' = Append(envs, [table |-> envs[src].table, refs |-> r.refs])
    /\ ret' = [op |-> "clone", env |-> Len(envs) + 1, src |-> src]
    /\ UNCHANGED <<registry, cache, gens>>

\* entries of all the mappings together
RECURSIVE TotalRefs(_)
TotalRefs(h) == IF Len(h) = 0 THEN 0 ELSE Len(Head(h)) + TotalRefs(Tail(h))

\* e.add_ref(path)
AddRef(e, path) ==
    /\ e \in 1..Len(envs)
    /\ TotalRefs(heap) < MaxRefs
    /\ LET r == add_ref(Refs(e), path)
       IN /\ heap' = [heap EXCEPT ![envs[e].refs] = r.refs]
          /\ ret' = [op |-> "add_ref", env |-> e, path |-> path,
                     exc |-> r.exc, val |-> r.val,
                     added |-> Len(r.refs) - Len(Refs(e))]
    /\ UNCHANGED <<registry, envs, cache, gens>>

\* t.join_on(path, e)
JoinOn(t, path, e) ==
    /\ SchemaHas(registry, t)
    /\ e \in 1..Len(envs)
    /\ Len(cache) < MaxCache
    /\ LET r == join_on(cache, registry, t, path, e)
       IN /\ cache' = r.cache
          /\ ret' = [op |-> "join_on", table |-> t, path |-> path, env |-> e,
                     exc |-> r.exc, val |-> r.val]
    /\ UNCHANGED <<registry, envs, heap, gens>>

\* g = table.join(e) for the table e is bound to, as the statement builders
\* call it: the generator is made, none of its body runs
JoinStart(e) ==
    /\ e \in 1..Len(envs)
    /\ Len(gens) < Cardinality(GenIds)
    /\ gens' = Append(gens, NewGenerator(envs[e].table, e))
    /\ ret' = [op |-> "join", gen |-> Len(gens) + 1, env |-> e]
    /\ UNCHANGED <<registry, envs, heap, cache>>

\* next(g): one more descriptor, or the end of the generator. A call that
\* has a prefix to resolve is explored while the cache is shorter than
\* MaxCache.
JoinNext(g) ==
    /\ g \in 1..Len(gens)
    /\ gens[g].state # "done"
    /\ Len(cache) < MaxCache \/ gens[g].pos >= Len(Refs(gens[g].env))
    /\ LET r == join_next(cache, registry, gens[g], Refs(gens[g].env))
       IN /\ cache' = r.cache
          /\ gens' = [gens EXCEPT ![g] = r.gen]
          /\ ret' = [op |-> "next", gen |-> g, exc |-> r.exc, at |-> r.at,
                     val |-> r.val]
    /\ UNCHANGED <<registry, envs, heap>>

\* list(table.join(e)): the generator is consumed with nothing in between
JoinList(e) ==
    /\ e \in 1..Len(envs)
    /\ Len(cache) < MaxCache
    /\ LET t == envs[e].table
           r == join(cache, registry, t, e, Refs(e))
       IN /\ cache' = r.cache
          /\ ret' = [op |-> "list_join", table |-> t, env |-> e, exc |-> r.exc,
                     at |-> r.at, val |-> r.descs]
    /\ UNCHANGED <<registry, envs, heap, gens>>

----------------------------------------------------------------------------
(* Specifications *)

\* Building a schema
InitTable ==
    /\ registry = <<>>
    /\ envs = <<>>
    /\ heap = <<>>
    /\ cache = <<>>
    /\ gens = <<>>
    /\ ret = Start

NextTable ==
    \/ \E args \in TableArgs : TableInit(args)

SpecTable == InitTable /\ [][NextTable]_vars

\* Expanding default columns while the schema is built
NextColumns ==
    \/ \E args \in ColumnArgs : TableInit(args)
    \/ \E t \in Names, nk_only \in BOOLEAN : DefaultColumns(t, nk_only)
    \/ \E t \in Names, nk_only \in BOOLEAN : DefaultColumnsStart(t, nk_only)
    \/ \E g \in GenIds : DefaultColumnsNext(g)

SpecColumns == InitTable /\ [][NextColumns]_vars

\* Alias environments over a built schema
InitEnv ==
    /\ registry = PQRegistry(None, None)
    /\ envs = <<>>
    /\ heap = <<>>
    /\ cache = <<>>
    /\ gens = <<>>
    /\ ret = Start

NextEnv ==
    \/ \E t \in EnvRoots : EnvInit(t)
    \/ \E t \in EnvRoots, src \in EnvIds : EnvInitRefs(t, src)
    \/ \E src \in EnvIds : Clone(src)
    \/ \E e \in EnvIds, path \in RefPaths : AddRef(e, path)

SpecEnv == InitEnv /\ [][NextEnv]_vars

\* Join emission over a built schema, for an Env rooted at either table
InitJoin ==
    /\ registry = PQRegistry("pid", None)
    /\ envs \in {<<[table |-> t, refs |-> 1]>> : t \in Names}
    /\ heap = <<<<>>>>
    /\ cache = <<>>
    /\ gens = <<>>
    /\ ret = Start

NextJoin ==
    \/ \E e \in EnvIds, path \in RefPaths : AddRef(e, path)
    \/ \E e \in EnvIds : JoinStart(e)
    \/ \E g \in GenIds : JoinNext(g)
    \/ \E e \in EnvIds : JoinList(e)

SpecJoin == InitJoin /\ [][NextJoin]_vars

\* Join resolution through the cache over a built schema
InitResolve ==
    /\ registry \in ResolveRegistries
    /\ heap = [e \in EnvIds |-> <<>>]
    /\ envs = [e \in EnvIds |-> [table |-> "p", refs |-> e]]
    /\ cache = <<>>
    /\ gens = <<>>
    /\ ret = Start

NextResolve ==
    \/ \E t \in Names, path \in JoinPaths, e \in EnvIds : JoinOn(t, path, e)

SpecResolve == InitResolve /\ [][NextResolve]_vars


----------------------------------------------------------------------------
(* Alias environment: C1, C2, C8, C10 (SpecEnv) *)

Last(s) == s[Len(s)]

Parent(prefix) == SubSeq(prefix, 1, Len(prefix) - 1)

\* C1: in every mapping, the k-th registered prefix (zero-based, in insertion
\* order) has the alias "<last segment of the prefix>_<k>", however often
\* registered prefixes were revisited and whether the prefix was registered
\* directly or as the ancestor of a deeper path.
C1_AliasOrdinals ==
    \A d \in 1..Len(heap) : \A k \in 1..Len(heap[d]) :
        heap[d][k].v = [name |-> Last(heap[d][k].k), n |-> k - 1]

\* an add_ref registered a prefix and its ancestor at once in a mapping that
\* held a prefix already, giving them the ordinals 1 and 2
C1_Witness ==
    /\ ret.op = "add_ref"
    /\ ret.exc = None
    /\ ret.added = 2
    /\ Len(Refs(ret.env)) = 3
    /\ ret.val.alias.n = 2

\* C2: no add_ref changes or removes the entry of a registered prefix, and an
\* add_ref whose prefix is registered leaves every mapping as it is and
\* returns "<existing alias>"."<column>".
C2_StableAlias ==
    [][ret'.op = "add_ref" /\ ret'.exc = None =>
          LET e == ret'.env
              prefix == Parent(ret'.path)
              before == Refs(e)
              after == heap'[envs[e].refs]
          IN /\ Len(after) >= Len(before)
             /\ \A i \in 1..Len(before) : after[i] = before[i]
             /\ DictHas(before, prefix) =>
                   /\ heap' = heap
                   /\ ret'.val = [alias |-> before[DictIndex(before, prefix)].v,
                                  col |-> Last(ret'.path)]
      ]_vars

\* an add_ref registered nothing and returned the alias of a prefix that is
\* not the newest entry of its mapping
C2_Witness ==
    /\ ret.op = "add_ref"
    /\ ret.exc = None
    /\ ret.added = 0
    /\ ret.val.alias.n + 1 < Len(Refs(ret.env))

\* C8: an add_ref on one Env never changes the mapping of another Env,
\* however the two were created.
C8_NoSharing ==
    [][ret'.op = "add_ref" =>
          \A other \in 1..Len(envs) :
              other # ret'.env => heap'[envs[other].refs] = Refs(other)
      ]_vars

\* C10: every registered prefix of length >= 2 has its parent prefix
\* registered strictly before it.
C10_PrefixClosed ==
    \A d \in 1..Len(heap) : \A i \in 1..Len(heap[d]) :
        Len(heap[d][i].k) >= 2 =>
            \E j \in 1..(i - 1) : heap[d][j].k = Parent(heap[d][i].k)

\* the first add_ref made on a mapping was for a path several relations
\* deep: the call registered every entry the mapping holds
C10_Witness ==
    /\ ret.op = "add_ref"
    /\ ret.added >= 2
    /\ Len(Refs(ret.env)) = ret.added
    /\ Last(Refs(ret.env)).k = Parent(ret.path)

----------------------------------------------------------------------------
(* Join resolution: C3, C5, C7 (SpecResolve) *)

\* the table a declared segment leads to, None for an undeclared one
StepTarget(table, seg) ==
    IF DictHas(table.one2many, seg)
    THEN table.one2many[DictIndex(table.one2many, seg)].v.table
    ELSE IF DictHas(table.foreign_keys, seg)
    THEN table.foreign_keys[DictIndex(table.foreign_keys, seg)].v
    ELSE None

\* a segment of the path is neither a foreign key nor a reverse relation of
\* the table it is resolved against
RECURSIVE Undeclared(_, _, _)
Undeclared(reg, table_name, path) ==
    /\ Len(path) > 0
    /\ SchemaHas(reg, table_name)
    /\ LET target == StepTarget(SchemaGet(reg, table_name), Head(path))
       IN target = None \/ Undeclared(reg, target, Tail(path))

CacheKeys == DictKeys(cache)

\* C3: for a single segment naming a reverse relation declared on X as
\* "T.c", join_on returns foreign table T, join column c on the foreign table
\* and X's own primary key as the local anchor column.
C3_ReverseRelation ==
    (/\ ret.op = "join_on"
     /\ ret.exc = None
     /\ Len(ret.path) = 1
     /\ DictHas(SchemaGet(registry, ret.table).one2many, ret.path[1]))
    => LET X == SchemaGet(registry, ret.table)
           rel == X.one2many[DictIndex(X.one2many, ret.path[1])].v
       IN ret.val = [ftable |-> rel.table, alias_col |-> rel.col,
                     join_col |-> X.primary_key]

\* C5: every value join_on returns, and every value its cache holds, is the
\* value an uncached resolution of the same table and path gives, whatever
\* the Env passed and whatever calls went before.
C5_ReferentiallyStable ==
    /\ (ret.op = "join_on" /\ ret.exc = None) =>
          LET f == join_on_fresh(registry, ret.table, ret.path)
          IN f.exc = None /\ f.val = ret.val
    /\ \A i \in 1..Len(cache) :
          /\ SchemaHas(registry, cache[i].k[1])
          /\ LET f == join_on_fresh(registry, cache[i].k[1], cache[i].k[2])
             IN f.exc = None /\ f.val = cache[i].v

\* a path of two segments was resolved while the cache held the same table
\* and path under the other Env
C5_Witness ==
    /\ ret.op = "join_on"
    /\ ret.exc = None
    /\ Len(ret.path) = 2
    /\ \A e \in EnvIds : <<ret.table, ret.path, e>> \in CacheKeys

\* C7: join_on fails with the UnresolvedRelation failure (the exception
\* UnresolvedFK), and returns nothing, whenever a segment of the path is
\* neither a foreign key nor a reverse relation of the table it is resolved
\* against, and the cache never holds an entry for such a table and path.
C7_UnresolvedRelation ==
    /\ (ret.op = "join_on" /\ Undeclared(registry, ret.table, ret.path)) =>
          ret.exc = "UnresolvedFK"
    /\ \A key \in CacheKeys : ~ Undeclared(registry, key[1], key[2])

----------------------------------------------------------------------------
(* Join emission: C4 (SpecJoin) *)

\* the anchor the claim gives the join of a prefix
ExpectedAnchor(refs, root, prefix) ==
    IF Len(prefix) = 1 THEN RootAnchor(root)
    ELSE refs[DictIndex(refs, Parent(prefix))].v

\* the descriptors follow the entries of the mapping in insertion order, each
\* with its entry's alias and the claimed anchor, and a descriptor anchored
\* on an alias comes after the descriptor introducing that alias
DescriptorsFollow(descs, refs, root) ==
    /\ Len(descs) <= Len(refs)
    /\ \A i \in 1..Len(descs) :
          /\ descs[i].alias = refs[i].v
          /\ Len(refs[i].k) >= 2 => DictHas(refs, Parent(refs[i].k))
          /\ descs[i].prev_table = ExpectedAnchor(refs, root, refs[i].k)
          /\ Len(refs[i].k) >= 2 =>
                \E j \in 1..(i - 1) : descs[j].alias = descs[i].prev_table

\* the prefix of entry i resolves from the root table
Resolves(refs, root, i) == join_on_fresh(registry, root, refs[i].k).exc = None

\* C4 as stated: a generator of join that has ended has emitted exactly one
\* descriptor per entry the mapping held when its iteration began, in
\* insertion order, anchored on the root table's name for a prefix of length
\* 1 and on the parent prefix's alias otherwise; a descriptor anchored on an
\* alias comes after the one introducing it and the anchor lookup never
\* fails.
C4_OnePerEntry ==
    /\ \A g \in 1..Len(gens) :
          /\ gens[g].at \notin {"anchor", "unpack"}
          /\ DescriptorsFollow(gens[g].descs, Refs(gens[g].env), gens[g].table)
          /\ gens[g].state = "done" =>
                /\ gens[g].exc = "StopIteration"
                /\ Len(gens[g].descs) = gens[g].used
    /\ ret.op = "list_join" =>
          /\ ret.at \notin {"anchor", "unpack"}
          /\ ret.exc = None
          /\ Len(ret.val) = Len(Refs(ret.env))
          /\ DescriptorsFollow(ret.val, Refs(ret.env), ret.table)

\* what the amended claim says of the descriptors descs emitted from the
\* mapping refs of an Env rooted at root, by a generator whose iteration
\* began when the mapping held used entries and which, when ended holds, has
\* finished with exc raised at place at
EmissionOk(descs, refs, root, used, ended, exc, at) ==
    LET n == Len(descs)
    IN /\ at \notin {"anchor", "unpack"}
       /\ DescriptorsFollow(descs, refs, root)
       /\ \A i \in 1..n : Resolves(refs, root, i)
       /\ ended =>
             /\ exc \in {"StopIteration", "KeyError", "RuntimeError"}
             /\ exc = "StopIteration" => n = used
             /\ exc = "KeyError" =>
                   /\ at = "join_on"
                   /\ n < used
                   /\ ~ Resolves(refs, root, n + 1)
             /\ exc = "RuntimeError" => (at = "items" /\ Len(refs) > used)
             /\ (Len(refs) = used /\ \A i \in 1..used : Resolves(refs, root, i))
                   => exc = "StopIteration"

\* C4 amended: join emits one descriptor per entry, in insertion order and
\* with the anchors above, for as long as the prefixes resolve from the root
\* table and the mapping keeps the size it had when the iteration began. It
\* ends with the resolver's exception at the first prefix that does not
\* resolve, with RuntimeError at the first request made after the mapping has
\* grown, and after the last entry otherwise. The anchor lookup never fails.
C4_OnePerResolvedEntry ==
    /\ \A g \in 1..Len(gens) :
          EmissionOk(gens[g].descs, Refs(gens[g].env), gens[g].table,
                     gens[g].used, gens[g].state = "done", gens[g].exc,
                     gens[g].at)
    /\ ret.op = "next" =>
          (ret.exc = "RuntimeError"
              <=> Len(Refs(gens[ret.gen].env)) # gens[ret.gen].used)
    /\ ret.op = "list_join" =>
          EmissionOk(ret.val, Refs(ret.env), ret.table, Len(Refs(ret.env)),
                     TRUE, IF ret.exc = None THEN "StopIteration" ELSE ret.exc,
                     ret.at)

\* a generator of join over a mapping of three prefixes ran to its end, one
\* descriptor at a time, one of them anchored on the alias of an earlier one
C4_Witness ==
    /\ ret.op = "next"
    /\ ret.exc = "StopIteration"
    /\ Len(gens[ret.gen].descs) >= 3
    /\ \E i \in 1..Len(gens[ret.gen].descs) :
          gens[ret.gen].descs[i].prev_table.n >= 0

----------------------------------------------------------------------------
(* Table construction and default columns: C6 (SpecTable), C9 (SpecColumns) *)

\* the natural key a constructor call ends up with
EffectiveNk(args) ==
    IF args.natural_key = <<>>
    THEN [i \in 1..Len(args.columns) |-> args.columns[i].k]
    ELSE args.natural_key

TypesOk(args) == \A i \in 1..Len(args.columns) : ColumnOk(args.columns[i].v)

\* the natural key is one column with a foreign key on it to the table itself
SelfKeyed(args) ==
    /\ Len(EffectiveNk(args)) = 1
    /\ \E i \in 1..Len(args.foreign_keys) :
          /\ args.foreign_keys[i].k = EffectiveNk(args)[1]
          /\ args.foreign_keys[i].v = args.name

\* C6: constructing a table whose natural key is one column carrying a
\* foreign key to the table itself fails with a schema-definition error and
\* leaves the registry unchanged; any other constructor call with known
\* column types (a self-referential foreign key on another column, a foreign
\* key on the natural-key column to another table) registers the table.
C6_SelfKeyedRejected ==
    [][ret'.op = "Table" =>
          LET args == ret'.args
          IN /\ SelfKeyed(args) =>
                   /\ ret'.exc \in {"IncorrectTable", "ValueError"}
                   /\ TypesOk(args) => ret'.exc = "IncorrectTable"
                   /\ registry' = registry
             /\ (~ SelfKeyed(args) /\ TypesOk(args)) =>
                   /\ ret'.exc = None
                   /\ Len(registry') = Len(registry) + 1
                   /\ SubSeq(registry', 1, Len(registry)) = registry
                   /\ Last(registry').k = args.name
                   /\ Last(registry').v.natural_key = EffectiveNk(args)
                   /\ Last(registry').v.foreign_keys = args.foreign_keys
      ]_vars

\* a table with one declared column, no natural key given and a foreign key
\* on that column to itself was rejected while another table was registered
C6_Witness ==
    /\ ret.op = "Table"
    /\ ret.exc = "IncorrectTable"
    /\ ret.args.natural_key = <<>>
    /\ Len(ret.args.columns) = 1
    /\ Len(registry) = 1
    /\ ~ SchemaHas(registry, ret.args.name)

RECURSIVE Flatten(_)
Flatten(ss) == IF Len(ss) = 0 THEN <<>> ELSE Head(ss) \o Flatten(Tail(ss))

FkTarget(table, column) == table.foreign_keys[DictIndex(table.foreign_keys, column)].v

IsFk(table, column) == DictHas(table.foreign_keys, column)

\* the first i columns of the table, its foreign-key columns expanded once
\* into the dotted natural-key columns of their targets
ExpandedUpTo(reg, table, i) ==
    Flatten([j \in 1..i |->
        LET c == table.columns[j].k
        IN IF ~ IsFk(table, c) THEN <<(<<c>>)>>
           ELSE LET nk == SchemaGet(reg, FkTarget(table, c)).natural_key
                IN [k \in 1..Len(nk) |-> <<c, nk[k]>>]])

ExpandedOnce(reg, table) == ExpandedUpTo(reg, table, Len(table.columns))

\* the targets of the foreign keys among the first i columns are registered
TargetsRegisteredUpTo(reg, table, i) ==
    \A j \in 1..i :
        IsFk(table, table.columns[j].k) =>
            SchemaHas(reg, FkTarget(table, table.columns[j].k))

IsPrefix(s, t) == Len(s) <= Len(t) /\ SubSeq(t, 1, Len(s)) = s

\* the yielded column ends on a foreign-key column of the table it belongs to
EndsOnFk(reg, table, col) ==
    IF Len(col) = 1 THEN IsFk(table, col[1])
    ELSE IsFk(SchemaGet(reg, FkTarget(table, col[1])), col[2])

AllTargetsRegistered(reg, table) ==
    \A i \in 1..Len(table.foreign_keys) : SchemaHas(reg, table.foreign_keys[i].v)

\* C9 as stated: with nk_only false every foreign-key column is expanded
\* recursively, so that no column of the result ends on a foreign-key column;
\* with nk_only true the result is the natural key; the expansion terminates.
C9_FullyExpanded ==
    (ret.op = "default_columns" /\ AllTargetsRegistered(registry, SchemaGet(registry, ret.table))) =>
        LET table == SchemaGet(registry, ret.table)
        IN /\ ret.exc = None
           /\ ret.nk_only => ret.val = [i \in 1..Len(table.natural_key) |->
                                            <<table.natural_key[i]>>]
           /\ ~ ret.nk_only =>
                 \A i \in 1..Len(ret.val) : ~ EndsOnFk(registry, table, ret.val[i])

\* what the amended claim says of a generator of default_columns over the
\* table, as the registry stands: cols are the columns it has yielded, exc
\* is how it ended (None while it has not)
ColumnsOk(reg, table, nk_only, cols, exc) ==
    LET nkcols == [i \in 1..Len(table.natural_key) |-> <<table.natural_key[i]>>]
        n == Len(table.columns)
    IN IF nk_only
       THEN /\ exc \in {None, "StopIteration"}
            /\ IsPrefix(cols, nkcols)
            /\ exc = "StopIteration" => cols = nkcols
       ELSE /\ \E i \in 0..n :
                  /\ TargetsRegisteredUpTo(reg, table, i)
                  /\ IsPrefix(cols, ExpandedUpTo(reg, table, i))
            /\ exc = "StopIteration" =>
                  /\ TargetsRegisteredUpTo(reg, table, n)
                  /\ cols = ExpandedOnce(reg, table)
            /\ exc \notin {None, "StopIteration"} =>
                  \E i \in 0..(n - 1) :
                      /\ TargetsRegisteredUpTo(reg, table, i)
                      /\ cols = ExpandedUpTo(reg, table, i)
                      /\ IsFk(table, table.columns[i + 1].k)

\* C9 amended: with nk_only false the columns come in declaration order, a
\* column without foreign key as itself and a foreign-key column expanded one
\* level, into "<column>.<k>" for each natural-key column k of its target as
\* registered when the column is reached, whether or not k is a foreign key
\* of the target; the expansion fails only at a foreign-key column whose
\* target is not registered at that moment. With nk_only true the result is
\* the natural key without expansion; no call nests deeper than one level,
\* whatever cycles the foreign keys form.
C9_ExpandedOnce ==
    /\ (ret.op = "default_columns"
           /\ AllTargetsRegistered(registry, SchemaGet(registry, ret.table))) =>
          LET table == SchemaGet(registry, ret.table)
          IN /\ ret.exc = None
             /\ ret.nk_only => ret.val = [i \in 1..Len(table.natural_key) |->
                                              <<table.natural_key[i]>>]
             /\ ~ ret.nk_only => ret.val = ExpandedOnce(registry, table)
    /\ \A g \in 1..Len(gens) :
          /\ Len(gens[g].stack) <= 2
          /\ ColumnsOk(registry, SchemaGet(registry, gens[g].stack[1].table),
                       gens[g].stack[1].nk_only, gens[g].cols, gens[g].exc)
    /\ (ret.op = "next_column" /\ ret.exc \notin {None, "StopIteration"}) =>
          LET table == SchemaGet(registry, gens[ret.gen].stack[1].table)
          IN \E i \in 0..(Len(table.columns) - 1) :
                /\ TargetsRegisteredUpTo(registry, table, i)
                /\ gens[ret.gen].cols = ExpandedUpTo(registry, table, i)
                /\ IsFk(table, table.columns[i + 1].k)
                /\ ~ SchemaHas(registry, FkTarget(table, table.columns[i + 1].k))

\* a generator of default_columns ran to its end one column at a time, for a
\* table registered before the target of one of its foreign keys, and a
\* column it yielded ends on a foreign-key column of the target
C9_Witness ==
    /\ ret.op = "next_column"
    /\ ret.exc = "StopIteration"
    /\ ~ gens[ret.gen].stack[1].nk_only
    /\ LET table == SchemaGet(registry, gens[ret.gen].stack[1].table)
       IN /\ \E i \in 1..Len(registry) :
                /\ registry[i].k # table.name
                /\ DictIndex(registry, table.name) < i
                /\ \E j \in 1..Len(table.foreign_keys) :
                      table.foreign_keys[j].v = registry[i].k
          /\ \E i \in 1..Len(gens[ret.gen].cols) :
                /\ Len(gens[ret.gen].cols[i]) = 2
                /\ EndsOnFk(registry, table, gens[ret.gen].cols[i])

====
